---------------------------- MODULE Spec2Model ----------------------------
(***************************************************************************)
(* Colormap Maker (src/main.py): one editor session around a colormap      *)
(* widget, the Python file save_colormap writes and the files              *)
(* load_colormap imports.                                                  *)
(*                                                                         *)
(* Positions are integers in units of 1/PosScale (the add dialog's spin    *)
(* box has four decimals); positions in a file are integers in units of    *)
(* 1/FileScale (the file is written with six decimals).  A colour is the   *)
(* triple <<r, g, b>> of its 8-bit channels.  A sample position i/(n-1) is *)
(* kept as the fraction num/den and compared by cross-multiplication.      *)
(*                                                                         *)
(* The colormap object (qwt.QwtLinearColorMap / plotpy EditableColormap)   *)
(* and the widget are libraries the program calls; their operators below   *)
(* are mapped to the places of src/main.py that call them.                 *)
(***************************************************************************)
EXTENDS Integers, Sequences, FiniteSets, TLC

\* ------------------------------------------------------------------ bounds

\* Operations of one behaviour after its start (a failed or cancelled one counts).
MaxOps == 2

\* The add dialog is not opened on a colormap that already has MaxStops stops.
MaxStops == 4

\* --------------------------------------------------------------- constants

\* position_spinner.setDecimals(4)
PosScale == 10000

\* f"{stop.pos:.6f}", f"{color.red()/255:.6f}", f"{pos:.6f}"
FileScale == 1000000

\* for i in range(512): pos = i / 511
NumSamples == 512

\* ------------------------------------------------------------ input sets

Blue == <<0, 0, 255>>
Yellow == <<255, 255, 0>>
Red == <<255, 0, 0>>
Black == <<0, 0, 0>>

\* Positions typed into the add dialog: a boundary, two interior ones and one
\* less than 0.001 below 1.0.
DialogPositions == {0, 2500, 5000, 9995}

\* Colours picked in a QColorDialog.
PickedColors == {Red, Black}

\* Sample counts the tests assign to the app's num_colors attribute.
NumColorsChoices == {16, 512, 4096}

\* ---------------------------------------------------------------- colours

\* QColor.rgb() without its constant alpha byte 0xff (a 32-bit integer
\* cannot hold it): red * 2^16 + green * 2^8 + blue.
qRgb(c) == c[1] * 65536 + c[2] * 256 + c[3]

\* QColor(rgb_int): the channels of the integer.
QColorOf(n) == << (n \div 65536) % 256, (n \div 256) % 256, n % 256 >>

\* f"{v/255:.6f}": the channel v as a fraction of 255, in units of 1/FileScale,
\* rounded to the nearest (no tie is possible: 2 * v * FileScale is even and
\* 255 * (2k + 1) is odd).
FmtChannel(v) == (2 * v * FileScale + 255) \div 510

\* QColor.fromRgbF(f) followed by .red(): f in units of 1/FileScale is stored as
\* the 16-bit value round(f * 65535) and read back as its high byte.  The
\* product is split so that no intermediate exceeds 32 bits.
FromRgbFChannel(u) ==
  LET a == u \div 1000
      b == u % 1000
      hi == (a * 65535) \div 1000
      lo == (a * 65535) % 1000
      x16 == hi + ((lo * 1000 + b * 65535 + 500000) \div FileScale)
  IN x16 \div 256

fromRgbF(t) == << FromRgbFChannel(t[1]), FromRgbFChannel(t[2]), FromRgbFChannel(t[3]) >>

\* f"{stop.pos:.6f}" of a position in units of 1/PosScale.
FmtPos(p) == p * (FileScale \div PosScale)

\* The float literal of a file read back as a position.  The files of this model
\* hold positions that are whole multiples of 1/PosScale.
ParsePos(t) == t \div (FileScale \div PosScale)

\* f"{i/(n-1):.6f}": the sample position num/den rounded to six decimals.
FmtSamplePos(num, den) == (2 * num * FileScale + den) \div (2 * den)

\* f"{pos:.4f}": the same to four decimals, as the tables show it.
FmtSamplePos4(num, den) == (2 * num * PosScale + den) \div (2 * den)

\* ------------------------------------------------- the colormap (PythonQwt)

ColorStop(p, c) == [pos |-> p, rgb |-> c]

\* ColorStops.findUpper(pos): the (1-based) index of the first stop whose
\* position is greater than num/den, Len + 1 when there is none.  The library
\* finds it by bisection; the stops are kept in ascending order.
findUpper(st, num, den) ==
  LET gt == {k \in 1..Len(st) : st[k].pos * den > num * PosScale}
  IN IF gt = {} THEN Len(st) + 1 ELSE CHOOSE k \in gt : \A j \in gt : k <= j

\* ColorStops.insert(pos, color): a position outside [0, 1] is ignored; the new
\* stop goes before the first stop with a greater position, and REPLACES that
\* stop when it is less than 0.001 away.
insert(st, p, c) ==
  IF p < 0 \/ p > PosScale THEN st
  ELSE LET index == findUpper(st, p, PosScale)
       IN IF index = Len(st) + 1 \/ (st[index].pos - p) * 1000 >= PosScale
          THEN SubSeq(st, 1, index - 1) \o << ColorStop(p, c) >> \o SubSeq(st, index, Len(st))
          ELSE [st EXCEPT ![index] = ColorStop(p, c)]

\* QwtLinearColorMap.addColorStop(value, color)
addColorStop(st, p, c) == insert(st, p, c)

\* EditableColormap(color1, color2): stops at 0.0 and 1.0.
EditableColormap(c1, c2) == insert(insert(<< >>, 0, c1), PosScale, c2)

\* One channel of the interpolation: int(c0 + 0.5 + ratio * (c1 - c0)) with
\* ratio = num/den in [0, 1), in exact arithmetic.
Channel(c0, c1, num, den) == c0 + (((c1 - c0) * num + (den \div 2)) \div den)

RECURSIVE GCD(_, _)
GCD(a, b) == IF b = 0 THEN a ELSE GCD(b, a % b)

\* The sample position num/den has no stop above it although it is below 1.0:
\* the stop below it has posStep = 0 and the interpolation divides by zero.
rgbRaises(st, num, den) ==
  /\ num > 0
  /\ num < den
  /\ findUpper(st, num, den) = Len(st) + 1

\* colormap.rgb(QwtInterval(0, 1), pos) for pos = num/den: the colour of the
\* first (last) stop at or below 0 (at or above 1), otherwise interpolated
\* between the stops around pos with ratio rn/rd = (pos - s1.pos) / s1.posStep
\* (the fraction is reduced so that its products stay within 32 bits).
rgb(st, num, den) ==
  IF num <= 0 THEN st[1].rgb
  ELSE IF num >= den THEN st[Len(st)].rgb
  ELSE LET index == findUpper(st, num, den)
           s1 == st[index - 1]
           s2 == st[index]
           g == GCD(PosScale, den)
           rn == num * (PosScale \div g) - s1.pos * (den \div g)
           rd == (s2.pos - s1.pos) * (den \div g)
       IN << Channel(s1.rgb[1], s2.rgb[1], rn, rd),
             Channel(s1.rgb[2], s2.rgb[2], rn, rd),
             Channel(s1.rgb[3], s2.rgb[3], rn, rd) >>

\* The n colours at positions i/(n-1), i = 0..n-1 (the loops of update_tables
\* and save_colormap).
DenseColors(st, n) == [i \in 1..n |-> rgb(st, i - 1, n - 1)]

\* The initial colormap of ColorMapWidget(None, ...): blue to yellow.
DefaultColormap == EditableColormap(Blue, Yellow)


\* ------------------------------------------------------------------ files

\* A module attribute: its name and the number the name embeds (0: none).
Attr(name, n) == << name, n >>

\* color_positions: f"{stop.pos:.6f}" of every stop.
SavedColorPositions(st) == [i \in 1..Len(st) |-> FmtPos(st[i].pos)]

\* rgb_colors: the channels of every stop on the 0-1 scale, six decimals.
SavedRgbColors(st) ==
  [i \in 1..Len(st) |->
     << FmtChannel(st[i].rgb[1]), FmtChannel(st[i].rgb[2]), FmtChannel(st[i].rgb[3]) >>]

\* (mutant) the loop over the intermediate stops starts one stop late.
SavedAddedFromSecond(st) ==
  [i \in 1..(Len(st) - 3) |-> [pos |-> FmtPos(st[i + 2].pos), rgb |-> qRgb(st[i + 2].rgb)]]

\* The addColorStop lines of create_colormap: one for each of stops[1:-1].
SavedAdded(st) ==
  [i \in 1..(Len(st) - 2) |-> [pos |-> FmtPos(st[i + 1].pos), rgb |-> qRgb(st[i + 1].rgb)]]

\* (mutant) the loop runs over range(1, 513).
SavedRgbValuesFromOne(st) == [i \in 1..NumSamples |-> rgb(st, i, NumSamples - 1)]

\* The rows of get_rgb_array(): for i in range(512), the colour at i / 511.
SavedRgbValues(st) == DenseColors(st, NumSamples)

\* The rows of get_positions(): f"{pos:.6f}" of the same 512 positions.
SavedPositions == [i \in 1..NumSamples |-> FmtSamplePos(i - 1, NumSamples - 1)]

\* The names the written file defines (its imports aside).
SavedAttrs ==
  { Attr("color_positions", 0), Attr("rgb_colors", 0), Attr("create_colormap", 0),
    Attr("get_rgb_array", 0), Attr("get_positions", 0) }

\* The text save_colormap writes for the colormap st, as the module an import of
\* it yields: the two stop arrays, the arguments of create_colormap's
\* constructor call and of its addColorStop calls, the rows of get_rgb_array()
\* and get_positions(), and the number of parameters of get_rgb_array.  The
\* app's num_colors attribute is not read.
WrittenFile(st) ==
  [ exists |-> TRUE,
    attrs |-> SavedAttrs,
    color_positions |-> SavedColorPositions(st),
    rgb_colors |-> SavedRgbColors(st),
    color1_rgb |-> qRgb(st[1].rgb),
    color2_rgb |-> qRgb(st[Len(st)].rgb),
    added |-> SavedAdded(st),
    rgb_values |-> SavedRgbValues(st),
    positions |-> SavedPositions,
    get_rgb_array_params |-> 0,
    syntax_error |-> FALSE ]

NoFile ==
  [ exists |-> FALSE, attrs |-> {}, color_positions |-> << >>, rgb_colors |-> << >>,
    color1_rgb |-> 0, color2_rgb |-> 0, added |-> << >>, rgb_values |-> << >>,
    positions |-> << >>, get_rgb_array_params |-> 0, syntax_error |-> FALSE ]

\* The file save_colormap leaves when colormap.rgb raises in its loop over the
\* 512 rows: the text ends inside the list of get_rgb_array, which no import
\* parses.
TruncatedFile == [NoFile EXCEPT !.exists = TRUE, !.syntax_error = TRUE]

\* A file of another script that defines the given attributes.
OtherFile(names, ps, cs) ==
  [ NoFile EXCEPT !.exists = TRUE,
                  !.attrs = { Attr(n, 0) : n \in names },
                  !.color_positions = ps,
                  !.rgb_colors = cs ]

Arrays == {"color_positions", "rgb_colors"}

F0 == << 0, 0, 0 >>
F1 == << FileScale, FileScale, FileScale >>
FHalf == << 500000, 500000, 500000 >>
FRed == << FileScale, 0, 0 >>

\* Files with the two arrays and no create_colormap: 2, 3 and 4 entries, in
\* ascending order and not, with an entry just below 1.0, with three entries
\* that step down from 1.0 by 0.0009 each, and with fewer colours than positions.
ArrayFiles ==
  { OtherFile(Arrays, << 0, FileScale >>, << F0, F1 >>),
    OtherFile(Arrays, << 0, 500000, FileScale >>, << FRed, FHalf, F0 >>),
    OtherFile(Arrays, << 0, 250000, 750000, FileScale >>, << F0, FRed, FHalf, F1 >>),
    OtherFile(Arrays, << 0, 750000, 250000, FileScale >>, << F0, FRed, FHalf, F1 >>),
    OtherFile(Arrays, << 0, 999500, FileScale >>, << F0, FRed, F1 >>),
    OtherFile(Arrays, << 0, 999100, 998200, 997300, FileScale >>, << F0, FRed, FHalf, FRed, F1 >>),
    OtherFile(Arrays, << 0, 500000, FileScale >>, << FRed, FHalf >>) }

\* Files with neither shape: nothing, or one array only.
ShapelessFiles ==
  { OtherFile({}, << >>, << >>),
    OtherFile({"color_positions"}, << 0, FileScale >>, << >>),
    OtherFile({"rgb_colors"}, << >>, << F0, F1 >>) }

\* A file with create_colormap (red, one black stop at 0.25, yellow) whose arrays
\* describe another colormap (black, grey at 0.5, white).
BothFile ==
  [ OtherFile(Arrays \cup {"create_colormap"}, << 0, 500000, FileScale >>, << F0, FHalf, F1 >>)
      EXCEPT !.color1_rgb = qRgb(Red), !.color2_rgb = qRgb(Yellow),
             !.added = << [pos |-> 250000, rgb |-> qRgb(Black)] >> ]

\* module.get_rgb_array(*args): a TypeError when more arguments are passed than
\* the function has parameters, otherwise the rows of its body.
get_rgb_array(m, args) ==
  IF Len(args) > m.get_rgb_array_params
  THEN [raises |-> "TypeError", value |-> << >>]
  ELSE [raises |-> "", value |-> m.rgb_values]

\* addColorStop for added[i..], in order.
RECURSIVE AddStops(_, _, _)
AddStops(st, added, i) ==
  IF i > Len(added) THEN st
  ELSE AddStops(addColorStop(st, ParsePos(added[i].pos), QColorOf(added[i].rgb)), added, i + 1)

\* module.create_colormap() of a written file.
create_colormap(m) ==
  AddStops(EditableColormap(QColorOf(m.color1_rgb), QColorOf(m.color2_rgb)), m.added, 1)

\* The loop over range(1, len(color_positions) - 1) of the arrays branch.
RECURSIVE AddArrayStops(_, _, _)
AddArrayStops(st, m, i) ==
  IF i > Len(m.color_positions) - 2 THEN st
  ELSE AddArrayStops(
         addColorStop(st, ParsePos(m.color_positions[i + 1]),
                      QColorOf(qRgb(fromRgbF(m.rgb_colors[i + 1])))),
         m, i + 1)

\* The arrays branch indexes rgb_colors[0], rgb_colors[-1] and rgb_colors[i] for
\* every i of the loop: an IndexError when rgb_colors is too short.
ArraysRaise(m) ==
  \/ Len(m.rgb_colors) = 0
  \/ Len(m.color_positions) - 1 > Len(m.rgb_colors)

FromArrays(m) ==
  AddArrayStops(
    EditableColormap(fromRgbF(m.rgb_colors[1]), fromRgbF(m.rgb_colors[Len(m.rgb_colors)])),
    m, 1)


\* ------------------------------------------------------------- the widget

\* ColorMapWidget.add_handle_at_relative_pos(position, color): the stop is added
\* to the colormap.
add_handle_at_relative_pos(st, p, c) == addColorStop(st, p, c)

\* (mutant) the position None is taken for 0.0: the stop moves there.
edit_color_stop_at_zero(st, index, c) == [st EXCEPT ![index + 1] = ColorStop(0, c)]

\* ColorMapWidget.edit_color_stop(index, None, new_color)
edit_color_stop(st, index, c) == [st EXCEPT ![index + 1].rgb = c]

\* ColorMapWidget.set_colormap(colormap)
set_colormap(colormap) == colormap

\* An invalid QColor: the colour dialog was cancelled.
Invalid == << -1, -1, -1 >>

ColorMethods == {"Choose Color", "Interpolate from Colormap"}

\* ------------------------------------------------------------------ state

VARIABLES
  stops,        \* the colormap of the widget: its colour stops, in order
  num_colors,   \* the app's num_colors attribute (0: never assigned)
  stops_table,  \* the rows of the "Color Stops" table
  rgb_preview,  \* the "512 RGB Values" table: the colormaps its rows sample
  file,         \* the file save_colormap wrote last (NoFile: none yet)
  dialog,       \* the message of the error box the last handler showed ("": none)
  raised,       \* the exception that escaped the last handler ("": none)
  last,         \* the last operation: its name, its input, what it met and did
  before,       \* the colormap before the last operation
  loaded,       \* the module the last load_colormap imported (NoFile: none)
  saved,        \* the colormap and num_colors of the last save that wrote a file
  ops           \* operations run so far

vars == << stops, num_colors, stops_table, rgb_preview, file, dialog, raised,
           last, before, loaded, saved, ops >>

\* The rows update_tables puts in stops_table: index, f"{pos:.4f}", colour.
StopsRows(st) ==
  [i \in 1..Len(st) |-> [index |-> i - 1, position |-> st[i].pos, rgb |-> st[i].rgb]]

\* Row i (0-based) of rgb_preview as update_tables fills it from st: its
\* num_colors is the local 512.
PreviewRow(st, i) ==
  [index |-> i,
   position |-> FmtSamplePos4(i, NumSamples - 1),
   rgb |-> rgb(st, i, NumSamples - 1)]

\* The rows update_tables puts in rgb_preview when its loop runs to the end.
PreviewRows(st) == [i \in 1..NumSamples |-> PreviewRow(st, i - 1)]

\* The first row at which colormap.rgb raises in the loop over the 512 rows
\* of update_tables and of save_colormap (NumSamples: the loop runs to the
\* end).  A row raises when no stop lies above its position, and then so does
\* every later row below 1.0: when row 510 does not raise, no row does, and
\* otherwise the first row that raises is the one after the last row that
\* does not, which is row 510 - d.
FirstRaise(st) ==
  IF ~rgbRaises(st, NumSamples - 2, NumSamples - 1) THEN NumSamples
  ELSE LET d == CHOOSE d \in 1..(NumSamples - 2) :
                  /\ ~rgbRaises(st, NumSamples - 2 - d, NumSamples - 1)
                  /\ rgbRaises(st, NumSamples - 1 - d, NumSamples - 1)
       IN NumSamples - 1 - d

\* update_tables does not return: the ZeroDivisionError of colormap.rgb leaves it.
update_tables_raises(st) == FirstRaise(st) < NumSamples

\* The preview as the state keeps it: the rows below upto of the first entry
\* sample its colormap st, the rows from there to upto of the second entry
\* sample the second's, and so on.  After a loop that ran to the end there is
\* one entry.
Preview(st) == << [upto |-> NumSamples, st |-> st] >>

\* The rows the preview pv shows.
ShownRows(pv) ==
  [i \in 1..NumSamples |->
     LET k == CHOOSE k \in 1..Len(pv) :
                /\ pv[k].upto >= i
                /\ \A j \in 1..(k - 1) : pv[j].upto < i
     IN PreviewRow(pv[k].st, i - 1)]

\* update_tables fills the stops table from the colormap st, then the preview
\* row by row: the rows from the first one at which colormap.rgb raises are
\* left as they were.
update_tables(st) ==
  LET upto == FirstRaise(st)
  IN /\ stops_table' = StopsRows(st)
     /\ rgb_preview' = << [upto |-> upto, st |-> st] >>
                       \o SelectSeq(rgb_preview, LAMBDA e : e.upto > upto)

Did(op, arg, hit, done) == [op |-> op, arg |-> arg, hit |-> hit, done |-> done]

\* The colormaps a session starts from: the default one of ColormapMakerApp()
\* and the ones the tests build on it with the widget's
\* add_handle_at_relative_pos before they save (red at 0.5; red at 0.25 and blue
\* at 0.75), the latter also with its stops added in descending order.
StartColormaps ==
  { DefaultColormap,
    add_handle_at_relative_pos(DefaultColormap, 5000, Red),
    add_handle_at_relative_pos(add_handle_at_relative_pos(DefaultColormap, 2500, Red), 7500, Blue),
    add_handle_at_relative_pos(add_handle_at_relative_pos(DefaultColormap, 7500, Black), 2500, Red) }

\* ColormapMakerApp() and the test's set-up: HANDLE_ADDED has filled the tables.
Init ==
  /\ stops \in StartColormaps
  /\ num_colors = 0
  /\ stops_table = StopsRows(stops)
  /\ rgb_preview = Preview(stops)
  /\ file = NoFile
  /\ dialog = ""
  /\ raised = ""
  /\ last = Did("init", 0, FALSE, TRUE)
  /\ before = stops
  /\ loaded = NoFile
  /\ saved = [stops |-> << >>, num_colors |-> 0]
  /\ ops = 0

\* Another ColormapMakerApp() (the loading session of test_load_colormap), set
\* up like the first: the files stay.
NewSession ==
  /\ last.op # "init"
  /\ \E start \in StartColormaps :
       /\ stops' = start
       /\ stops_table' = StopsRows(start)
       /\ rgb_preview' = Preview(start)
       /\ before' = start
  /\ num_colors' = 0
  /\ dialog' = ""
  /\ raised' = ""
  /\ last' = Did("init", 0, FALSE, TRUE)
  /\ loaded' = NoFile
  /\ UNCHANGED << file, saved, ops >>

\* colormap_app.num_colors = n; colormap_app.update_tables()
SetNumColors ==
  \E n \in NumColorsChoices :
    /\ ops < MaxOps
    /\ num_colors # n
    /\ num_colors' = n
    /\ update_tables(stops)
    /\ dialog' = ""
    /\ raised' = IF update_tables_raises(stops) THEN "ZeroDivisionError" ELSE ""
    /\ last' = Did("num_colors", n, FALSE, TRUE)
    /\ before' = stops
    /\ loaded' = NoFile
    /\ ops' = ops + 1
    /\ UNCHANGED << stops, file, saved >>

\* ------------------------------------------------------------ add a stop

add_new_color_stop ==
  /\ ops < MaxOps
  /\ Len(stops) < MaxStops
  /\ \E accepted \in BOOLEAN, position \in DialogPositions,
        method \in ColorMethods, picked \in PickedColors \cup {Invalid} :
       LET existing_positions == {stops[i].pos : i \in 1..Len(stops)}
           interpolate == method = "Interpolate from Colormap"
           returns == ~accepted \/ (~interpolate /\ picked = Invalid)
           raises == accepted /\ interpolate /\ rgbRaises(stops, position, PosScale)
           color == IF interpolate THEN rgb(stops, position, PosScale) ELSE picked
           done == ~returns /\ ~raises
           then == IF done THEN add_handle_at_relative_pos(stops, position, color) ELSE stops
       IN /\ stops' = then
          /\ IF done THEN update_tables(then) ELSE UNCHANGED << stops_table, rgb_preview >>
          /\ dialog' = ""
          /\ raised' = IF raises \/ (done /\ update_tables_raises(then))
                       THEN "ZeroDivisionError" ELSE ""
          /\ last' = IF done
                     THEN Did("add", position, position \in existing_positions, TRUE)
                     ELSE Did("add", 0, FALSE, FALSE)
  /\ before' = stops
  /\ loaded' = NoFile
  /\ ops' = ops + 1
  /\ UNCHANGED << num_colors, file, saved >>

\* ------------------------------------------------------ edit a stop's colour

\* edit_color(row, column): a click on cell (row, column) of the stops table,
\* or a call with a row past the last stop.  In the colour column stops[row] is
\* read before the colour dialog opens: an IndexError when there is no such
\* stop, and the handler has no try.
edit_color ==
  /\ ops < MaxOps
  /\ \E row \in 0..Len(stops_table), column \in {2, 3},
        new_color \in PickedColors \cup {Invalid} :
       LET raises == column = 2 /\ row >= Len(stops)
           done == column = 2 /\ ~raises /\ new_color # Invalid
           then == IF done THEN edit_color_stop(stops, row, new_color) ELSE stops
       IN /\ stops' = then
          /\ IF done THEN update_tables(then) ELSE UNCHANGED << stops_table, rgb_preview >>
          /\ raised' = IF raises THEN "IndexError"
                       ELSE IF done /\ update_tables_raises(then) THEN "ZeroDivisionError"
                       ELSE ""
          /\ last' = IF done \/ raises THEN Did("edit", row, TRUE, done)
                     ELSE Did("edit", 0, column = 2, FALSE)
  /\ dialog' = ""
  /\ before' = stops
  /\ loaded' = NoFile
  /\ ops' = ops + 1
  /\ UNCHANGED << num_colors, file, saved >>

\* "Edit color" of the slider menu: the handle closest to the right click.
edit_selected_handle_color ==
  /\ ops < MaxOps
  /\ \E handle_index \in 0..(Len(stops) - 1), new_color \in PickedColors \cup {Invalid} :
       LET done == new_color # Invalid
           then == IF done THEN edit_color_stop(stops, handle_index, new_color) ELSE stops
       IN /\ stops' = then
          /\ IF done THEN update_tables(then) ELSE UNCHANGED << stops_table, rgb_preview >>
          /\ raised' = IF done /\ update_tables_raises(then) THEN "ZeroDivisionError" ELSE ""
          /\ last' = IF done THEN Did("edit_handle", handle_index, TRUE, TRUE)
                     ELSE Did("edit_handle", 0, TRUE, FALSE)
  /\ dialog' = ""
  /\ before' = stops
  /\ loaded' = NoFile
  /\ ops' = ops + 1
  /\ UNCHANGED << num_colors, file, saved >>

\* ---------------------------------------------------------- drag a handle

\* The positions a handle is dropped at.
DragPositions == {2500, 7500}

\* The colormap after the handle at index (0-based) was dragged to p: the stop
\* keeps its colour.
move_color_stop(st, index, p) == [st EXCEPT ![index + 1].pos = p]

\* A handle between the first and the last is dragged to a free position
\* between its neighbours; the widget emits COLORMAP_CHANGED, which runs
\* update_tables.
COLORMAP_CHANGED ==
  /\ ops < MaxOps
  /\ \E index \in 1..(Len(stops) - 2), p \in DragPositions :
       /\ stops[index].pos < p
       /\ p < stops[index + 2].pos
       /\ p # stops[index + 1].pos
       /\ stops' = move_color_stop(stops, index, p)
       /\ update_tables(move_color_stop(stops, index, p))
       /\ raised' = IF update_tables_raises(move_color_stop(stops, index, p))
                    THEN "ZeroDivisionError" ELSE ""
       /\ last' = Did("drag", index, FALSE, TRUE)
  /\ dialog' = ""
  /\ before' = stops
  /\ loaded' = NoFile
  /\ ops' = ops + 1
  /\ UNCHANGED << num_colors, file, saved >>

\* --------------------------------------------------------- remove a stop

\* st without its stop at index (0-based).
delete_stop(st, index) == SubSeq(st, 1, index) \o SubSeq(st, index + 2, Len(st))

\* The widget's "remove" on the handle at index: refused on the first and the
\* last stop; HANDLE_DELETED runs update_tables.
RemoveStop ==
  /\ ops < MaxOps
  /\ \E index \in 0..(Len(stops) - 1) :
       LET boundary == index = 0 \/ index = Len(stops) - 1
           then == IF boundary THEN stops ELSE delete_stop(stops, index)
       IN /\ stops' = then
          /\ IF boundary THEN UNCHANGED << stops_table, rgb_preview >> ELSE update_tables(then)
          /\ dialog' = IF boundary THEN "ValidationError" ELSE ""
          /\ raised' = IF ~boundary /\ update_tables_raises(then)
                       THEN "ZeroDivisionError" ELSE ""
          /\ last' = Did("remove", index, boundary, ~boundary)
  /\ before' = stops
  /\ loaded' = NoFile
  /\ ops' = ops + 1
  /\ UNCHANGED << num_colors, file, saved >>


\* ------------------------------------------------------------------- save

\* What the save dialog and open(filename, 'w') can do: no file chosen, the
\* file cannot be opened for writing, the file is written.
SaveOutcomes == {"cancelled", "unwritable", "written"}

\* save_colormap has no try: the error of open(), and the ZeroDivisionError of
\* colormap.rgb in the loop over the 512 rows, leave the handler as raised.
save_colormap ==
  /\ ops < MaxOps
  /\ \E outcome \in SaveOutcomes :
       LET raises == outcome = "written" /\ FirstRaise(stops) < NumSamples
           done == outcome = "written" /\ ~raises
       IN /\ file' = IF done THEN WrittenFile(stops)
                     ELSE IF raises THEN TruncatedFile
                     ELSE file
          /\ saved' = IF done THEN [stops |-> stops, num_colors |-> num_colors] ELSE saved
          /\ raised' = IF outcome = "unwritable" THEN "PermissionError"
                       ELSE IF raises THEN "ZeroDivisionError"
                       ELSE ""
          /\ last' = Did("save", 0, outcome = "unwritable", done)
  /\ dialog' = ""
  /\ before' = stops
  /\ loaded' = NoFile
  /\ ops' = ops + 1
  /\ UNCHANGED << stops, num_colors, stops_table, rgb_preview >>

\* ------------------------------------------------------------------- load

\* The files the open dialog can name: the file save_colormap wrote and the
\* files of other scripts.
Files == (IF file.exists THEN {file} ELSE {}) \cup ArrayFiles \cup ShapelessFiles \cup {BothFile}

HasAttr(m, name) == Attr(name, 0) \in m.attrs

\* (mutant) the arrays branch is entered when either array is there.
LoadErrorEitherArray(m) ==
  IF m.syntax_error THEN "'[' was never closed"
  ELSE IF HasAttr(m, "create_colormap") THEN ""
  ELSE IF HasAttr(m, "color_positions") \/ HasAttr(m, "rgb_colors")
       THEN (IF ArraysRaise(m) THEN "list index out of range" ELSE "")
       ELSE "File does not contain valid colormap data"

\* The message of the exception that exec_module and the branches of
\* load_colormap raise on the file m ("": none).
LoadError(m) ==
  IF m.syntax_error THEN "'[' was never closed"
  ELSE IF HasAttr(m, "create_colormap") THEN ""
  ELSE IF HasAttr(m, "color_positions") /\ HasAttr(m, "rgb_colors")
       THEN (IF ArraysRaise(m) THEN "list index out of range" ELSE "")
       ELSE "File does not contain valid colormap data"

\* (mutant) the arrays are looked for first.
LoadedColormapArraysFirst(m) ==
  IF HasAttr(m, "color_positions") /\ HasAttr(m, "rgb_colors")
  THEN FromArrays(m) ELSE create_colormap(m)

\* The colormap the try block builds from the module m.
LoadedColormap(m) ==
  IF HasAttr(m, "create_colormap") THEN create_colormap(m) ELSE FromArrays(m)

\* load_colormap: every exception of the try block, the one of update_tables
\* after set_colormap included, ends in
\* QMessageBox.critical(..., f"Failed to load colormap from file:\n{str(e)}");
\* dialog holds str(e).
load_colormap ==
  /\ ops < MaxOps
  /\ \/ \* no file chosen
        /\ last' = Did("load", 0, FALSE, FALSE)
        /\ dialog' = ""
        /\ loaded' = NoFile
        /\ UNCHANGED << stops, stops_table, rgb_preview >>
     \/ \* the file cannot be read: exec_module raises
        /\ last' = Did("load", 0, TRUE, FALSE)
        /\ dialog' = "[Errno 13] Permission denied"
        /\ loaded' = NoFile
        /\ UNCHANGED << stops, stops_table, rgb_preview >>
     \/ \E m \in Files :
          LET error == LoadError(m)
              then == IF error = "" THEN set_colormap(LoadedColormap(m)) ELSE stops
          IN /\ stops' = then
             /\ IF error = "" THEN update_tables(then)
                ELSE UNCHANGED << stops_table, rgb_preview >>
             /\ dialog' = IF error = "" /\ update_tables_raises(then)
                          THEN "float division by zero" ELSE error
             /\ loaded' = m
             /\ last' = Did("load", 1, FALSE, error = "")
  /\ raised' = ""
  /\ before' = stops
  /\ ops' = ops + 1
  /\ UNCHANGED << num_colors, file, saved >>

\* ---------------------------------------------------------- specification

Next ==
  \/ NewSession
  \/ SetNumColors
  \/ add_new_color_stop
  \/ edit_color
  \/ edit_selected_handle_color
  \/ COLORMAP_CHANGED
  \/ RemoveStop
  \/ save_colormap
  \/ load_colormap

Spec == Init /\ [][Next]_vars


\* ------------------------------------------------------------ properties

\* The last operation was a save_colormap that wrote the file.
JustSaved == last.op = "save" /\ last.done

\* C1: for every sample count N assigned to num_colors, the file save_colormap
\* writes exposes its dense colour array and its positions array under names
\* that embed N (_rgb_array_N, _positions_N), and both arrays have N entries.
C1_ArraysNamedAndSizedByN ==
  (JustSaved /\ num_colors \in NumColorsChoices) =>
    /\ Attr("_rgb_array_", num_colors) \in file.attrs
    /\ Attr("_positions_", num_colors) \in file.attrs
    /\ Len(file.rgb_values) = num_colors
    /\ Len(file.positions) = num_colors

\* Sample counts passed to the saved accessor.
AccessorCounts == {16, 100, 512}

\* C2: the saved accessor get_rgb_array returns N samples when called with no
\* argument, N being the num_colors of the save, and M samples computed from the
\* stored stops when called with the count M.
C2_AccessorDefaultsToNAndTakesACount ==
  (JustSaved /\ num_colors \in NumColorsChoices) =>
    /\ get_rgb_array(file, << >>).raises = ""
    /\ Len(get_rgb_array(file, << >>).value) = num_colors
    /\ \A M \in AccessorCounts :
         /\ get_rgb_array(file, << M >>).raises = ""
         /\ get_rgb_array(file, << M >>).value = DenseColors(create_colormap(file), M)


\* A gradient as the data model wants it: stops at 0.0 and at 1.0, positions
\* strictly ascending.
Valid(st) ==
  /\ Len(st) >= 2
  /\ st[1].pos = 0
  /\ st[Len(st)].pos = PosScale
  /\ \A i \in 1..(Len(st) - 1) : st[i].pos < st[i + 1].pos

\* The last operation was a load_colormap that imported the file save_colormap
\* wrote and set the colormap it built.
JustLoadedWritten == last.op = "load" /\ last.done /\ file.exists /\ loaded = file

MiddleStopSaved ==
  /\ JustSaved
  /\ Len(saved.stops) = 3
  /\ Valid(saved.stops)
  /\ saved.stops[2].pos = PosScale \div 2

LoadedArraysOnly ==
  /\ last.op = "load"
  /\ loaded.exists
  /\ ~HasAttr(loaded, "create_colormap")
  /\ HasAttr(loaded, "color_positions")
  /\ HasAttr(loaded, "rgb_colors")
  /\ Len(loaded.color_positions) = Len(loaded.rgb_colors)
  /\ Len(loaded.color_positions) >= 2

\* C5: such a load rebuilds a gradient of exactly k stops: entry 0's colour at
\* the first boundary, entry k-1's colour at the last boundary, and every
\* entry between them as a stop at its position with its colour.
C5_ArraysRebuildEveryEntry ==
  LoadedArraysOnly =>
    LET k == Len(loaded.color_positions)
    IN /\ last.done
       /\ Len(stops) = k
       /\ stops[1] = ColorStop(0, fromRgbF(loaded.rgb_colors[1]))
       /\ stops[k] = ColorStop(PosScale, fromRgbF(loaded.rgb_colors[k]))
       /\ \A i \in 2..(k - 1) :
            \E j \in 2..(k - 1) :
              stops[j] = ColorStop(ParsePos(loaded.color_positions[i]),
                                   fromRgbF(loaded.rgb_colors[i]))

\* C6: the session's gradient is never empty, has a stop at 0.0 and a stop at
\* 1.0, and has no two stops at the same position.
C6_GradientInvariant ==
  /\ Len(stops) >= 1
  /\ \E i \in 1..Len(stops) : stops[i].pos = 0
  /\ \E i \in 1..Len(stops) : stops[i].pos = PosScale
  /\ \A i, j \in 1..Len(stops) : stops[i].pos = stops[j].pos => i = j

\* C7: an add_new_color_stop that reaches its add with a position an existing
\* stop occupies is rejected with an error and leaves the stops as they were.
C7_DuplicateAddRejected ==
  (last.op = "add" /\ last.hit) =>
    /\ stops = before
    /\ (dialog # "" \/ raised # "")

\* A module that was imported and has neither shape: no create_colormap, and not both arrays.
Shapeless(m) ==
  /\ m.exists
  /\ ~m.syntax_error
  /\ ~HasAttr(m, "create_colormap")
  /\ ~(HasAttr(m, "color_positions") /\ HasAttr(m, "rgb_colors"))

\* C9: a load_colormap of a file with neither shape shows the format error and
\* leaves the colormap and both tables exactly as they were.
C9_ShapelessLoadChangesNothing ==
  [][ (last'.op = "load" /\ Shapeless(loaded')) =>
        /\ dialog' = "File does not contain valid colormap data"
        /\ ~last'.done
        /\ stops' = stops
        /\ stops_table' = stops_table
        /\ rgb_preview' = rgb_preview ]_vars

\* C9 happens: a file with one array only was loaded into a session whose
\* gradient has an intermediate stop, and the format error was shown.
C9_Witness ==
  /\ last.op = "load"
  /\ Shapeless(loaded)
  /\ HasAttr(loaded, "color_positions")
  /\ dialog = "File does not contain valid colormap data"
  /\ Len(stops) >= 3

\* C10: a save_colormap whose file cannot be written, or a load_colormap whose
\* file cannot be read, shows the underlying message to the user, lets no
\* exception escape the handler and leaves the gradient as it was.
C10_IoFailureIsShown ==
  (last.op \in {"save", "load"} /\ last.hit) =>
    /\ dialog = "[Errno 13] Permission denied"
    /\ raised = ""
    /\ stops = before

\* C11: with the sample count N of the session (16, 512 or 4096), the preview
\* of update_tables has exactly N rows, the first at position 0.0 and the last
\* at 1.0, and so have the colour and position arrays of a file just written.
C11_DenseSamplesCountN ==
  (num_colors \in NumColorsChoices) =>
    /\ Len(ShownRows(rgb_preview)) = num_colors
    /\ ShownRows(rgb_preview)[1].position = 0
    /\ ShownRows(rgb_preview)[num_colors].position = PosScale
    /\ JustSaved =>
         /\ Len(file.rgb_values) = num_colors
         /\ Len(file.positions) = num_colors
         /\ file.positions[1] = 0
         /\ file.positions[num_colors] = FileScale

C12_IndexErrorReached == last.op = "edit" /\ raised = "IndexError"

\* C13: in every state between two operations the stops table has one row
\* per stop of the current colormap, with that stop's position and colour, and
\* the preview holds the samples of the current colormap, never those of an
\* earlier one.
C13_ViewConsistent ==
  /\ stops_table = StopsRows(stops)
  /\ Len(stops_table) = Len(stops)
  /\ rgb_preview = Preview(stops)

\* C14: a load_colormap of a file that has create_colormap sets the colormap
\* create_colormap() returns, whatever the file's color_positions and
\* rgb_colors hold (the same colormap results with both arrays emptied); the
\* colormap comes from the arrays only when the file has no create_colormap.
C14_CreateColormapFirst ==
  (last.op = "load" /\ loaded.exists /\ ~loaded.syntax_error) =>
    IF HasAttr(loaded, "create_colormap")
    THEN /\ last.done
         /\ stops = create_colormap([loaded EXCEPT !.color_positions = << >>,
                                                   !.rgb_colors = << >>])
    ELSE last.done => stops = FromArrays(loaded)

\* C14 happens: the loaded file has a create_colormap for red, black at 0.25,
\* yellow and arrays for black, grey at 0.5, white; the colormap is the former.
C14_Witness ==
  /\ last.op = "load"
  /\ loaded = BothFile
  /\ stops = << ColorStop(0, Red), ColorStop(2500, Black), ColorStop(PosScale, Yellow) >>
  /\ stops # FromArrays(loaded)

=============================================================================
